---- MODULE Spec2Model ----
(***************************************************************************)
(* Model of proxy_litellm.py: a FastAPI reverse proxy.  Module-level       *)
(* configuration is read once; generic_proxy_handler is a coroutine with   *)
(* two suspension points (await request.body(), await client.request()).  *)
(* Text is modelled as sequences of one-character strings so that          *)
(* str.lower() and str.startswith() are computed, dicts as functions.      *)
(***************************************************************************)
EXTENDS Integers, Sequences, FiniteSets, TLC

VARIABLES LITELLM_BASE_URL, DS_APP_ID, DS_KEY, LITELLM_API_KEY, CUSTOM_HEADERS,
          request, pc, body, calls, upstream, response, errors

config == <<LITELLM_BASE_URL, DS_APP_ID, DS_KEY, LITELLM_API_KEY>>
vars == <<LITELLM_BASE_URL, DS_APP_ID, DS_KEY, LITELLM_API_KEY, CUSTOM_HEADERS,
          request, pc, body, calls, upstream, response, errors>>

(* ---------------- bounds ---------------- *)
MaxHeaders == 2
MaxParams == 2
NumClients == 2

(* ---------------- text helpers (Python str) ---------------- *)
UpperChars == <<"A","B","C","D","E","F","G","H","I","J","K","L","M",
                "N","O","P","Q","R","S","T","U","V","W","X","Y","Z">>
LowerChars == <<"a","b","c","d","e","f","g","h","i","j","k","l","m",
                "n","o","p","q","r","s","t","u","v","w","x","y","z">>

LowerChar(ch) ==
  IF \E i \in 1..Len(UpperChars) : UpperChars[i] = ch
  THEN LowerChars[CHOOSE i \in 1..Len(UpperChars) : UpperChars[i] = ch]
  ELSE ch

\* str.lower()
lower(s) == IF s = <<>> THEN <<>> ELSE [i \in 1..Len(s) |-> LowerChar(s[i])]

\* str.startswith(prefix)
startswith(s, prefix) ==
  /\ Len(s) >= Len(prefix)
  /\ SubSeq(s, 1, Len(prefix)) = prefix

(* ---------------- dict helpers (Python dict) ---------------- *)
EmptyDict == [k \in {} |-> <<>>]

\* variant: d.setdefault(k, v)
SetDefault(d, k, v) ==
  [x \in DOMAIN d \cup {k} |-> IF x \in DOMAIN d THEN d[x] ELSE v]
\* d[k] = v
SetItem(d, k, v) ==
  [x \in DOMAIN d \cup {k} |-> IF x = k THEN v ELSE d[x]]

\* d.update(other)
update(d, other) ==
  [x \in DOMAIN d \cup DOMAIN other |-> IF x \in DOMAIN other THEN other[x] ELSE d[x]]

(* ---------------- header names ---------------- *)
Bearer == <<"B","e","a","r","e","r"," ">>
bearer == <<"b","e","a","r","e","r"," ">>
Authorization == <<"A","u","t","h","o","r","i","z","a","t","i","o","n">>
XLiteLLMKey == <<"X","-","L","i","t","e","L","L","M","-","K","e","y">>
authorization == <<"a","u","t","h","o","r","i","z","a","t","i","o","n">>
x_litellm_key == <<"x","-","l","i","t","e","l","l","m","-","k","e","y">>

HopByHop ==
  { <<"h","o","s","t">>,
    <<"c","o","n","t","e","n","t","-","l","e","n","g","t","h">>,
    <<"c","o","n","n","e","c","t","i","o","n">>,
    <<"k","e","e","p","-","a","l","i","v","e">>,
    <<"p","r","o","x","y","-","a","u","t","h","e","n","t","i","c","a","t","e">>,
    <<"p","r","o","x","y","-","a","u","t","h","o","r","i","z","a","t","i","o","n">>,
    <<"t","e">>,
    <<"t","r","a","i","l","e","r","s">>,
    <<"t","r","a","n","s","f","e","r","-","e","n","c","o","d","i","n","g">>,
    <<"u","p","g","r","a","d","e">> }

\* variant: the set without its last two members
excluded_without_credentials == HopByHop
excluded_header_keys == HopByHop \cup {authorization, x_litellm_key}

(* ---------------- startup: CUSTOM_HEADERS ---------------- *)
\* variant: the prefix test without .lower()
LiteLLMKeyValue_casesensitive(key) ==
  IF ~ startswith(key, Bearer) THEN Bearer \o key ELSE key
\* lines 66-69: the value stored under X-LiteLLM-Key
LiteLLMKeyValue(key) ==
  IF ~ startswith(lower(key), bearer) THEN Bearer \o key ELSE key

\* lines 62-73
BuildCustomHeaders(api_key, ds_key) ==
  LET h0 == EmptyDict
      h1 == IF api_key # <<>> THEN SetItem(h0, XLiteLLMKey, LiteLLMKeyValue(api_key)) ELSE h0
      h2 == IF ds_key # <<>> THEN SetItem(h1, Authorization, ds_key) ELSE h1
  IN h2

(* ---------------- generic_proxy_handler, pure parts ---------------- *)
MountPrefix == <<"/","v","1">>

\* route "/v1{full_path:path}": the text of the path after the mount prefix
full_path(path) == SubSeq(path, Len(MountPrefix) + 1, Len(path))

\* variant: a "/" joined between base and suffix
target_url_slash(base, path) == base \o <<"/">> \o full_path(path)
\* line 129
target_url(base, path) == base \o full_path(path)

\* variant: app_id only inserted when absent
params_setdefault(query_params, app_id) == SetDefault(query_params, "app_id", app_id)
\* lines 132-133
params(query_params, app_id) == SetItem(query_params, "app_id", app_id)

\* variants: the test without .lower(); the test against the shorter set
NotExcluded_nolower(key) == key \notin excluded_header_keys
NotExcluded_nocred(key) == lower(key) \notin excluded_without_credentials
\* line 158: the test that lets a client header through
NotExcluded(key) == lower(key) \notin excluded_header_keys

RECURSIVE CopyHeaders(_)
\* lines 139, 157-159: loop over request.headers.items()
CopyHeaders(items) ==
  IF items = <<>> THEN EmptyDict
  ELSE LET prev == CopyHeaders(SubSeq(items, 1, Len(items) - 1))
           last == items[Len(items)]
       IN IF NotExcluded(last[1]) THEN SetItem(prev, last[1], last[2]) ELSE prev

\* lines 139-163
forward_headers(items, custom) == update(CopyHeaders(items), custom)


RECURSIVE JoinValues(_)
\* httpx joins the values of a repeated header with ", " when read as a mapping
JoinValues(vals) ==
  IF Len(vals) = 1 THEN vals[1]
  ELSE JoinValues(SubSeq(vals, 1, Len(vals) - 1)) \o <<",", " ">> \o vals[Len(vals)]

RECURSIVE ValuesOf(_, _)
ValuesOf(items, name) ==
  IF items = <<>> THEN <<>>
  ELSE LET rest == ValuesOf(SubSeq(items, 1, Len(items) - 1), name)
           last == items[Len(items)]
       IN IF lower(last[1]) = name THEN Append(rest, last[2]) ELSE rest

\* line 191: dict(response.headers), one entry per (lower-cased) header name
dict(items) ==
  [name \in {lower(items[i][1]) : i \in 1..Len(items)} |-> JoinValues(ValuesOf(items, name))]

\* lines 188-192
RelayResponse(r) ==
  [status_code |-> r.status_code, headers |-> dict(r.headers), content |-> r.content]

\* variant: the bytes received so far are returned
TransportErrorResponse_relay(exc) ==
  [status_code |-> 500, headers |-> EmptyDict, content |-> exc.partial]
\* line 195
TransportErrorResponse(exc) ==
  [status_code |-> 500, headers |-> EmptyDict,
   content |-> <<"Error proxying request: ", exc.name>>]

\* line 198
UnexpectedErrorResponse(exc) ==
  [status_code |-> 500, headers |-> EmptyDict,
   content |-> <<"An unexpected error occurred: ", exc.name>>]

(* ---------------- inputs ---------------- *)
Methods == {"GET", "POST", "PUT", "DELETE", "PATCH", "OPTIONS", "HEAD"}

ClientValue == <<"c">>
ClientHeaderNames ==
  { <<"H","o","s","t">>, <<"T","E">>, <<"X","-","I","d">>,
    authorization, <<"A","U","T","H","O","R","I","Z","A","T","I","O","N">>,
    x_litellm_key, XLiteLLMKey }
ClientHeaderItems == {<<n, ClientValue>> : n \in ClientHeaderNames}

SeqsUpTo(S, n) == UNION {[1..k -> S] : k \in 0..n}
Mappings(K, V, n) == UNION {[D -> V] : D \in {D \in SUBSET K : Cardinality(D) <= n}}

Paths == { MountPrefix, MountPrefix \o <<"/">>, MountPrefix \o <<"/","m">>,
           MountPrefix \o <<"b">>, MountPrefix \o <<"/","/","m","/",".",".">> }
Bodies == { <<>>, <<"{","}">> }
QueryKeys == {"app_id", "App_Id", "foo"}
QueryValues == {"bar", "evil"}

BaseUrls == { <<"u","/","v","1">>, <<"u","/">> }
AppIds == {"", "abc123"}
DsKeys == { <<>>, <<"d","s">> }
ApiKeys == { <<>>, <<"s","k">>, Bearer \o <<"s","k">>,
             <<"b","E","A","R","E","R"," ","s","k">>, <<"B","e","a","r","e","r","s","k">> }

UpstreamHeaderLists ==
  { <<>>,
    << <<<<"E","T","a","g">>, <<"a">>>> >>,
    << <<<<"s","e","t","-","c","o","o","k","i","e">>, <<"a">>>>,
       <<<<"s","e","t","-","c","o","o","k","i","e">>, <<"b">>>> >> }
Replies ==
  [kind : {"reply"}, status_code : {200, 404, 500},
   headers : UpstreamHeaderLists, content : {<<"{","}">>}]
\* partial: what the upstream had sent when the call failed
RequestErrors ==
  [kind : {"RequestError"}, name : {"ConnectError"}, partial : {<<>>}]
  \cup [kind : {"RequestError"}, name : {"ReadTimeout"}, partial : {<<>>, <<"{">>}]
OtherErrors ==
  [kind : {"Exception"}, name : {"InvalidURL"}, partial : {<<>>}]

Requests(ms, ps, qs, hs, bs) ==
  [method : ms, path : ps, query_params : qs, headers : hs, body : bs]

Clients == DOMAIN pc

(* ---------------- initial states ---------------- *)
Started(clients, reqs, bases, apps, dskeys, apikeys) ==
  /\ LITELLM_BASE_URL \in bases
  /\ DS_APP_ID \in apps
  /\ DS_KEY \in dskeys
  /\ LITELLM_API_KEY \in apikeys
  /\ CUSTOM_HEADERS = BuildCustomHeaders(LITELLM_API_KEY, DS_KEY)
  /\ request \in [clients -> reqs]
  /\ pc = [c \in clients |-> "new"]
  /\ body = [c \in clients |-> <<>>]
  /\ calls = [c \in clients |-> <<>>]
  /\ upstream = [c \in clients |-> <<>>]
  /\ response = [c \in clients |-> <<>>]
  /\ errors = [c \in clients |-> <<>>]

\* one request, every header list and credential configuration
Init ==
  Started({1},
          Requests({"POST"}, {MountPrefix \o <<"/","m">>}, {EmptyDict},
                   SeqsUpTo(ClientHeaderItems, MaxHeaders), {<<"{","}">>}),
          {<<"u","/","v","1">>}, {"abc123"}, DsKeys, ApiKeys)

\* one request, every method, path, query mapping and body
RouteInit ==
  Started({1},
          Requests(Methods, Paths, Mappings(QueryKeys, QueryValues, MaxParams),
                   { <<>>, << <<authorization, ClientValue>> >> }, Bodies),
          BaseUrls, AppIds, {<<"d","s">>}, {<<"s","k">>})

\* concurrent requests, some of them identical
ConcInit ==
  Started(1..NumClients,
          Requests({"GET"}, {MountPrefix \o <<"/","m">>},
                   {[k \in {"app_id"} |-> "evil"]},
                   { <<>>, << <<authorization, ClientValue>>, <<<<"X","-","I","d">>, ClientValue>> >> },
                   {<<"{","}">>}),
          {<<"u","/","v","1">>}, {"abc123"}, {<<"d","s">>}, {<<"s","k">>})

(* ---------------- generic_proxy_handler, steps ---------------- *)
\* line 122: await request.body() returns
ReadBody(c) ==
  /\ pc[c] = "new"
  /\ body' = [body EXCEPT ![c] = <<request[c].body>>]
  /\ pc' = [pc EXCEPT ![c] = "read"]
  /\ UNCHANGED <<config, CUSTOM_HEADERS, request, calls, upstream, response, errors>>

\* line 122: await request.body() raises (the client went away); outside the try
ReadBodyFails(c) ==
  /\ pc[c] = "new"
  /\ pc' = [pc EXCEPT ![c] = "raised"]
  /\ UNCHANGED <<config, CUSTOM_HEADERS, request, body, calls, upstream, response, errors>>

\* variant: the copied client headers are also stored into CUSTOM_HEADERS
Forward_leak(c) ==
  /\ pc[c] = "read"
  /\ calls' = [calls EXCEPT ![c] = Append(@,
        [method |-> request[c].method,
         url |-> target_url(LITELLM_BASE_URL, request[c].path),
         params |-> params(request[c].query_params, DS_APP_ID),
         headers |-> forward_headers(request[c].headers, CUSTOM_HEADERS),
         content |-> body[c][1]])]
  /\ CUSTOM_HEADERS' = update(CUSTOM_HEADERS, CopyHeaders(request[c].headers))
  /\ pc' = [pc EXCEPT ![c] = "await"]
  /\ UNCHANGED <<config, request, body, upstream, response, errors>>
\* lines 126-180: build the outbound request and issue it
Forward(c) ==
  /\ pc[c] = "read"
  /\ calls' = [calls EXCEPT ![c] = Append(@,
        [method |-> request[c].method,
         url |-> target_url(LITELLM_BASE_URL, request[c].path),
         params |-> params(request[c].query_params, DS_APP_ID),
         headers |-> forward_headers(request[c].headers, CUSTOM_HEADERS),
         content |-> body[c][1]])]
  /\ pc' = [pc EXCEPT ![c] = "await"]
  /\ UNCHANGED <<config, CUSTOM_HEADERS, request, body, upstream, response, errors>>

\* lines 173-192: the upstream answers and the answer is returned
UpstreamReplies(c) ==
  /\ pc[c] = "await"
  /\ \E r \in Replies :
       /\ upstream' = [upstream EXCEPT ![c] = <<r>>]
       /\ response' = [response EXCEPT ![c] = <<RelayResponse(r)>>]
  /\ pc' = [pc EXCEPT ![c] = "done"]
  /\ UNCHANGED <<config, CUSTOM_HEADERS, request, body, calls, errors>>

\* lines 193-195: client.request raises httpx.RequestError
CallRaisesRequestError(c) ==
  /\ pc[c] = "await"
  /\ \E exc \in RequestErrors :
       /\ upstream' = [upstream EXCEPT ![c] = <<exc>>]
       /\ response' = [response EXCEPT ![c] = <<TransportErrorResponse(exc)>>]
       /\ errors' = [errors EXCEPT ![c] = Append(@, <<"ERROR", "requesting", exc.name>>)]
  /\ pc' = [pc EXCEPT ![c] = "done"]
  /\ UNCHANGED <<config, CUSTOM_HEADERS, request, body, calls>>

\* lines 196-198: anything else raised inside the try
CallRaisesOther(c) ==
  /\ pc[c] = "await"
  /\ \E exc \in OtherErrors :
       /\ upstream' = [upstream EXCEPT ![c] = <<exc>>]
       /\ response' = [response EXCEPT ![c] = <<UnexpectedErrorResponse(exc)>>]
       /\ errors' = [errors EXCEPT ![c] = Append(@, <<"ERROR", "unexpected", exc.name>>)]
  /\ pc' = [pc EXCEPT ![c] = "done"]
  /\ UNCHANGED <<config, CUSTOM_HEADERS, request, body, calls>>

Step(c) ==
  \/ ReadBody(c)
  \/ ReadBodyFails(c)
  \/ Forward(c)
  \/ UpstreamReplies(c)
  \/ CallRaisesRequestError(c)
  \/ CallRaisesOther(c)

Next == \E c \in Clients : Step(c)

Spec == Init /\ [][Next]_vars
RouteSpec == RouteInit /\ [][Next]_vars
ConcSpec == ConcInit /\ [][Next]_vars
\* the event loop resumes every coroutine whose awaited operation has finished
FairSpec == ConcInit /\ [][Next]_vars /\ \A c \in 1..NumClients : WF_vars(Step(c))


(* ======================= properties ======================= *)
CredentialNames == {authorization, x_litellm_key}

\* client c's handler has issued its outbound call
Called(c) == Len(calls[c]) >= 1
\* a client header of request c whose name, whatever its case, lower-cases to name
Sent(c, name) ==
  \E j \in 1..Len(request[c].headers) : lower(request[c].headers[j][1]) = name

\* C1: no outbound Authorization or X-LiteLLM-Key header, in any letter case,
\* carries a value the client sent: each such header is absent or holds the
\* value configured by DS_KEY / LITELLM_API_KEY.
C1_ClientCredentialsNeverForwarded ==
  \A c \in Clients : \A i \in 1..Len(calls[c]) :
    LET out == calls[c][i].headers IN
    \A k \in DOMAIN out :
      /\ lower(k) = authorization =>
           /\ DS_KEY # <<>>
           /\ out[k] = DS_KEY
      /\ lower(k) = x_litellm_key =>
           /\ LITELLM_API_KEY # <<>>
           /\ out[k] \in {LITELLM_API_KEY, Bearer \o LITELLM_API_KEY}
      /\ lower(k) \in CredentialNames =>
           \A j \in 1..Len(request[c].headers) :
             lower(request[c].headers[j][1]) = lower(k) => out[k] # request[c].headers[j][2]

\* a client sent both credentials under non-canonical spellings to a proxy
\* with no credential configured, and the call was issued
C1_Witness ==
  \E c \in Clients :
    /\ Called(c)
    /\ DS_KEY = <<>>
    /\ LITELLM_API_KEY = <<>>
    /\ \E j \in 1..Len(request[c].headers) :
         request[c].headers[j][1] = <<"A","U","T","H","O","R","I","Z","A","T","I","O","N">>
    /\ Sent(c, x_litellm_key)

\* C2: the outbound query parameters are the inbound mapping with app_id set
\* to DS_APP_ID: every other key keeps its value, none is added or removed,
\* and a client app_id is overwritten.
C2_AppIdForced ==
  \A c \in Clients : \A i \in 1..Len(calls[c]) :
    LET Q == request[c].query_params
        out == calls[c][i].params
    IN /\ DOMAIN out = DOMAIN Q \cup {"app_id"}
       /\ out["app_id"] = DS_APP_ID
       /\ \A k \in DOMAIN Q \ {"app_id"} : out[k] = Q[k]

\* the client supplied its own app_id next to a key differing only in case
C2_Witness ==
  \E c \in Clients :
    /\ Called(c)
    /\ DOMAIN request[c].query_params = {"app_id", "App_Id"}
    /\ request[c].query_params["app_id"] = "evil"
    /\ DS_APP_ID = ""

\* C3 as stated: no outbound header name lower-cases to a member of the
\* exclusion set.
C3_NoExcludedNameOutbound ==
  \A c \in Clients : \A i \in 1..Len(calls[c]) :
    \A k \in DOMAIN calls[c][i].headers : lower(k) \notin excluded_header_keys

\* C3 amended: no outbound header name lower-cases to one of the ten
\* hop-by-hop names, and a name that lower-cases to authorization or
\* x-litellm-key is outbound only as the proxy's own CUSTOM_HEADERS entry.
C3_NoClientExcludedNameOutbound ==
  \A c \in Clients : \A i \in 1..Len(calls[c]) :
    LET out == calls[c][i].headers IN
    \A k \in DOMAIN out :
      /\ lower(k) \notin HopByHop
      /\ lower(k) \in CredentialNames =>
           /\ k \in DOMAIN CUSTOM_HEADERS
           /\ out[k] = CUSTOM_HEADERS[k]

\* the client sent mixed-case Host and TE headers and the proxy has DS_KEY set
C3_Witness ==
  \E c \in Clients :
    /\ Called(c)
    /\ DS_KEY # <<>>
    /\ \E j \in 1..Len(request[c].headers) : request[c].headers[j][1] = <<"H","o","s","t">>
    /\ \E j \in 1..Len(request[c].headers) : request[c].headers[j][1] = <<"T","E">>

\* C4: the outbound credential headers are exactly those the configuration
\* yields: X-LiteLLM-Key iff LITELLM_API_KEY is non-empty, holding the key
\* itself when it starts with "bearer " in any case and "Bearer " + key
\* otherwise; Authorization iff DS_KEY is non-empty, holding DS_KEY.
C4_CredentialHeadersFromConfig ==
  \A c \in Clients : \A i \in 1..Len(calls[c]) :
    LET out == calls[c][i].headers
        key == LITELLM_API_KEY
        prefixed == /\ Len(key) >= 7
                    /\ \A n \in 1..7 :
                          key[n] \in {bearer[n], <<"B","E","A","R","E","R"," ">>[n]}
    IN /\ {k \in DOMAIN out : lower(k) \in CredentialNames}
            = (IF key # <<>> THEN {XLiteLLMKey} ELSE {})
              \cup (IF DS_KEY # <<>> THEN {Authorization} ELSE {})
       /\ key # <<>> => out[XLiteLLMKey] = IF prefixed THEN key ELSE Bearer \o key
       /\ DS_KEY # <<>> => out[Authorization] = DS_KEY

\* the configured key already carries a mixed-case "bEARER " prefix
C4_Witness ==
  \E c \in Clients :
    /\ Called(c)
    /\ LITELLM_API_KEY = <<"b","E","A","R","E","R"," ","s","k">>
    /\ Sent(c, x_litellm_key)

\* the handler of c returned after the upstream answered / after the call raised
Answered(c) == pc[c] = "done" /\ upstream[c][1].kind = "reply"
TransportFailed(c) == pc[c] = "done" /\ upstream[c][1].kind = "RequestError"

\* the returned response carries the upstream's status, its body, and its
\* header lines one for one (names compared without regard to case)
ExactRelay(c) ==
  LET up == upstream[c][1]
      got == response[c][1]
  IN /\ got.status_code = up.status_code
     /\ got.content = up.content
     /\ Cardinality(DOMAIN got.headers) = Len(up.headers)
     /\ \A j \in 1..Len(up.headers) :
          /\ lower(up.headers[j][1]) \in DOMAIN got.headers
          /\ got.headers[lower(up.headers[j][1])] = up.headers[j][2]

\* C5: whenever the upstream answers with status S, headers Hr and body Br,
\* the client receives status S, exactly the headers Hr and the body Br.
C5_ResponseRoundTrip ==
  \A c \in Clients : Answered(c) => ExactRelay(c)

\* C6: the outbound call has the inbound method, the URL LITELLM_BASE_URL
\* followed by the text of the path after /v1 with nothing inserted or
\* removed, and the inbound body.
C6_MethodUrlBodyForwarded ==
  \A c \in Clients : \A i \in 1..Len(calls[c]) :
    LET out == calls[c][i]
        n == Len(LITELLM_BASE_URL)
    IN /\ out.method = request[c].method
       /\ out.content = request[c].body
       /\ Len(out.url) = n + Len(request[c].path) - 3
       /\ SubSeq(out.url, 1, n) = LITELLM_BASE_URL
       /\ <<"/","v","1">> \o SubSeq(out.url, n + 1, Len(out.url)) = request[c].path

\* a bodiless PATCH to the bare mount prefix, base URL ending in a slash
C6_Witness ==
  \E c \in Clients :
    /\ Called(c)
    /\ request[c].method = "PATCH"
    /\ request[c].path = <<"/","v","1">>
    /\ request[c].body = <<>>
    /\ LITELLM_BASE_URL = <<"u","/">>

\* C7: when the call raises a transport error the handler has made exactly
\* one call, logs one error and returns status 500 with the error text as
\* body and nothing received from the upstream in it.
C7_TransportErrorIs500 ==
  \A c \in Clients : TransportFailed(c) =>
    LET exc == upstream[c][1]
        got == response[c][1]
    IN /\ Len(calls[c]) = 1
       /\ Len(response[c]) = 1
       /\ got.status_code = 500
       /\ got.headers = EmptyDict
       /\ got.content = <<"Error proxying request: ", exc.name>>
       /\ \A n \in 1..Len(exc.partial) : \A m \in 1..Len(got.content) :
            got.content[m] # exc.partial[n]
       /\ Len(errors[c]) = 1
       /\ errors[c][1][1] = "ERROR"

\* the read timed out after part of the upstream body had arrived
C7_Witness ==
  \E c \in Clients :
    /\ TransportFailed(c)
    /\ upstream[c][1].name = "ReadTimeout"
    /\ upstream[c][1].partial # <<>>

\* C8: a failure that is not a transport error, at any step of the handler,
\* is caught inside the handler, logged at error level and answered with 500.
C8_EveryFailureCaught ==
  \A c \in Clients :
    (pc[c] = "raised" \/ (pc[c] = "done" /\ upstream[c][1].kind = "Exception")) =>
      /\ pc[c] = "done"
      /\ Len(response[c]) = 1
      /\ response[c][1].status_code = 500
      /\ Len(errors[c]) = 1
      /\ errors[c][1][1] = "ERROR"

\* C9: every accepted request eventually gets one response, which is the
\* exact upstream response or a 500 carrying an error description.
C9_EveryRequestAnswered ==
  \A c \in 1..NumClients :
    <>( /\ pc[c] = "done"
        /\ Len(response[c]) = 1
        /\ \/ Answered(c) /\ ExactRelay(c)
           \/ /\ upstream[c][1].kind # "reply"
              /\ response[c][1].status_code = 500
              /\ response[c][1].content # <<>> )

\* each handler past its call has issued exactly one call of its own, built
\* from its own request and the startup configuration only
Independent ==
  /\ \A c \in Clients : pc[c] \in {"await", "done"} => Len(calls[c]) = 1
  /\ \A c \in Clients : pc[c] \in {"new", "read", "raised"} => Len(calls[c]) = 0
  /\ \A c \in Clients : \A i \in 1..Len(calls[c]) :
       LET out == calls[c][i] IN
       /\ out.content = request[c].body
       /\ \A k \in DOMAIN out.headers :
            \/ k \in DOMAIN BuildCustomHeaders(LITELLM_API_KEY, DS_KEY)
            \/ \E j \in 1..Len(request[c].headers) : request[c].headers[j] = <<k, out.headers[k]>>
       /\ \A k \in DOMAIN out.params : k = "app_id" \/ k \in DOMAIN request[c].query_params
  /\ \A c1, c2 \in Clients :
       (Called(c1) /\ Called(c2) /\ request[c1] = request[c2]) => calls[c1] = calls[c2]

\* C10: under any interleaving of handlers no step changes the configuration
\* or CUSTOM_HEADERS, and every request gets its own outbound call that
\* depends only on that request and the configuration; identical requests
\* yield separate, equal calls.
C10_HandlersIndependent ==
  [][ /\ config' = config
      /\ CUSTOM_HEADERS' = CUSTOM_HEADERS
      /\ Independent' ]_vars

\* two identical requests carrying client headers, both calls in flight at once
C10_Witness ==
  \E c1, c2 \in Clients :
    /\ c1 # c2
    /\ pc[c1] = "await"
    /\ pc[c2] = "await"
    /\ request[c1] = request[c2]
    /\ request[c1].headers # <<>>

====
